---- MODULE Spec2Model ----
(***************************************************************************)
(* kCache: byte-bounded LRU engine (lru/lru.go), lazily built locked cache *)
(* (cache.go), single-flight coalescer (singleflight/singleflight.go) and  *)
(* the Group load path (Group.Get / load / getLocally / populateCache),    *)
(* the consistent-hash ring (consistenthash.Map) and HTTPPool.PickPeer.    *)
(***************************************************************************)
EXTENDS Integers, Sequences, FiniteSets, TLC

\* ------------------------------------------------------------------ bounds
NProcs == 2        \* concurrent callers of Group.Get
MaxGets == 3       \* Group.Get invocations in a concurrent workload
SeqGets == 5       \* Group.Get invocations in the sequential workload
MaxReplicas == 2   \* virtual nodes per real node in the ring harness

\* ------------------------------------------------------------- value space
Nil == "nil"                       \* nil error / nil pointer
NoBytes == <<>>                    \* ByteView{} : b = nil, Len() = 0
Values == {<<1>>, <<2, 2>>}        \* byte strings a loader or a peer returns
ConcKeys == {"", "a", "bb"}        \* keys of the concurrent workload
SeqKeys == {"k1", "k2", "k3", "k4"} \* keys of the sequential workload
LruKeys == {"a", "bb", "ccc"}      \* keys of the LRU harness
ConcBudgets == {-1, 0, 3, 5}       \* cacheBytes of the concurrent workload
SeqValues == {<<7, 7>>}            \* what the sequential loader returns
SeqBudget == 2 * (Len("k1") + Len(<<7, 7>>)) \* room for two such entries
LruBudgets == {-1, 0, 4, 6}        \* maxBytes of the LRU harness
RingNodes == {"2", "4", "12"}      \* real nodes of the ring harness
RingKeys == {"2", "11", "23", "27"} \* keys looked up in the ring harness
HashFns == {Nil, "atoi"}           \* fn of consistenthash.New: nil or custom
PoolPeers == <<"B", "C">>          \* peers of HTTPPool.Set; "C" is self
ErrKey == "key is required"
ErrLoad == "loader error"
ErrPeer == "peer error"

VARIABLES
  lru,        \* the lru.Cache (mainCache.lru; NoLru until first add)
  lmu,        \* holder of lru.Cache.mu (0 = free)
  cmu,        \* holder of cache.mu (0 = free)
  cacheBytes, \* mainCache.cacheBytes
  keys,       \* keys the workload asks for
  procs,      \* goroutines of the workload
  maxGets,    \* Get invocations of the workload
  vals,       \* byte strings the loader and the peers may return
  peers,      \* Group.peers: registered or nil, and the keys a remote owns
  m,          \* singleflight.Group.m : key -> call
  calls,      \* the call objects allocated so far, in allocation order
  pc,         \* per goroutine: position inside Group.Get
  key,        \* per goroutine: argument of Group.Get
  c,          \* per goroutine: the *call it holds inside Do (0 = none)
  bytes,      \* per goroutine: bytes returned by the loader / peer
  ret,        \* per goroutine: (value, error) returned by Group.Get
  gets,       \* number of Group.Get invocations so far
  loads,      \* key -> number of origin loader invocations
  peerGets,   \* key -> number of PeerGetter.Get invocations
  allConc,    \* no Get has started after another Get returned
  lastPop,    \* last populateCache and the Get that read right after it
  lastOp,     \* LRU harness: the last operation applied
  alog,       \* LRU harness: keys by last Add / Get-hit, most recent first
  ring,       \* ring harness: the consistenthash.Map
  added,      \* ring harness: node names in the order they were added
  lookup      \* ring harness: the last Map.Get since the last Add

cfgVars == <<cacheBytes, keys, procs, maxGets, vals, peers>>

ringVars == <<ring, added, lookup>>

harnessVars == <<lastOp, alog, ringVars>>

vars == <<lru, lmu, cmu, cfgVars, m, calls, pc, key, c, bytes, ret, gets,
          loads, peerGets, allConc, lastPop, harnessVars>>

groupVars == <<cfgVars, m, calls, pc, key, c, bytes, ret, gets, loads,
               peerGets, allConc, lastPop, cmu>>

\* ------------------------------------------------------------ lru/lru.go
NoLru == [nil |-> TRUE]

Range(s) == {s[i] : i \in 1..Len(s)}

\* lru.New
New(maxBytes, onEvicted) ==
  [maxBytes |-> maxBytes, nbytes |-> 0, ll |-> <<>>, elem |-> <<>>,
   cache |-> <<>>, OnEvicted |-> onEvicted, evicted |-> <<>>]

\* MoveToFront that leaves the element where it is
MoveToFront_stay(ll, e) == ll

\* container/list MoveToFront: no-op when e is not in the list
MoveToFront(ll, e) ==
  IF e \notin Range(ll) THEN ll
  ELSE <<e>> \o SelectSeq(ll, LAMBDA x : x # e)

\* a fresh *list.Element
NewElem(ch) == CHOOSE e \in 1..(Len(ch.ll) + 1) : e \notin Range(ch.ll)

\* removeOldest that takes the front of the list, not the back
removeOldest_front(ch) ==
  IF ch.ll = <<>> THEN ch
  ELSE LET ele == ch.ll[1]
           kv == ch.elem[ele]
       IN [ch EXCEPT
             !.ll = Tail(ch.ll),
             !.elem = [e \in DOMAIN ch.elem \ {ele} |-> ch.elem[e]],
             !.cache = [k \in DOMAIN ch.cache \ {kv.key} |-> ch.cache[k]],
             !.nbytes = ch.nbytes - (Len(kv.key) + Len(kv.value)),
             !.evicted = IF ch.OnEvicted THEN Append(ch.evicted, kv.key)
                         ELSE ch.evicted]

\* removeOldest that forgets the key bytes when it adjusts nbytes
removeOldest_valueOnly(ch) ==
  IF ch.ll = <<>> THEN ch
  ELSE LET ele == ch.ll[Len(ch.ll)]
           kv == ch.elem[ele]
       IN [ch EXCEPT
             !.ll = SubSeq(ch.ll, 1, Len(ch.ll) - 1),
             !.elem = [e \in DOMAIN ch.elem \ {ele} |-> ch.elem[e]],
             !.cache = [k \in DOMAIN ch.cache \ {kv.key} |-> ch.cache[k]],
             !.nbytes = ch.nbytes - Len(kv.value),
             !.evicted = IF ch.OnEvicted THEN Append(ch.evicted, kv.key)
                         ELSE ch.evicted]

\* Cache.removeOldest (caller holds the lock)
removeOldest(ch) ==
  IF ch.ll = <<>> THEN ch
  ELSE LET ele == ch.ll[Len(ch.ll)]
           kv == ch.elem[ele]
       IN [ch EXCEPT
             !.ll = SubSeq(ch.ll, 1, Len(ch.ll) - 1),
             !.elem = [e \in DOMAIN ch.elem \ {ele} |-> ch.elem[e]],
             !.cache = [k \in DOMAIN ch.cache \ {kv.key} |-> ch.cache[k]],
             !.nbytes = ch.nbytes - (Len(kv.key) + Len(kv.value)),
             !.evicted = IF ch.OnEvicted THEN Append(ch.evicted, kv.key)
                         ELSE ch.evicted]

\* a loop that evicts nothing
evictLoop_none(ch) == [ch |-> ch, spin |-> FALSE]

\* the eviction loop of Cache.Add; spin = the loop never exits
RECURSIVE evictLoop(_)
evictLoop(ch) ==
  IF ch.maxBytes # 0 /\ ch.nbytes > ch.maxBytes
  THEN IF ch.ll = <<>> THEN [ch |-> ch, spin |-> TRUE]
       ELSE evictLoop(removeOldest(ch))
  ELSE [ch |-> ch, spin |-> FALSE]

\* Add whose update branch keeps the old value
addEntry_stale(ch, k, v) ==
  IF k \in DOMAIN ch.cache
  THEN [ch EXCEPT
          !.ll = MoveToFront(ch.ll, ch.cache[k]),
          !.nbytes = ch.nbytes + Len(v) - Len(ch.elem[ch.cache[k]].value)]
  ELSE LET ele == NewElem(ch)
       IN [ch EXCEPT
             !.ll = <<ele>> \o ch.ll,
             !.cache = (k :> ele) @@ ch.cache,
             !.elem = (ele :> [key |-> k, value |-> v]) @@ ch.elem,
             !.nbytes = ch.nbytes + Len(k) + Len(v)]

\* Cache.Add up to the eviction loop
addEntry(ch, k, v) ==
  IF k \in DOMAIN ch.cache
  THEN LET ele == ch.cache[k]
       IN [ch EXCEPT
             !.ll = MoveToFront(ch.ll, ele),
             !.nbytes = ch.nbytes + Len(v) - Len(ch.elem[ele].value),
             !.elem = [ch.elem EXCEPT ![ele].value = v]]
  ELSE LET ele == NewElem(ch)
       IN [ch EXCEPT
             !.ll = <<ele>> \o ch.ll,
             !.cache = (k :> ele) @@ ch.cache,
             !.elem = (ele :> [key |-> k, value |-> v]) @@ ch.elem,
             !.nbytes = ch.nbytes + Len(k) + Len(v)]

\* Cache.Add
Add(ch, k, v) == evictLoop(addEntry([ch EXCEPT !.evicted = <<>>], k, v))

\* Cache.Get: the cache after the call, the value and ok
Get(ch, k) ==
  IF k \in DOMAIN ch.cache
  THEN [ch |-> [ch EXCEPT !.ll = MoveToFront(ch.ll, ch.cache[k]),
                          !.evicted = <<>>],
        value |-> ch.elem[ch.cache[k]].value, ok |-> TRUE]
  ELSE [ch |-> [ch EXCEPT !.evicted = <<>>], value |-> NoBytes, ok |-> FALSE]

\* Cache.RemoveOldest
RemoveOldest(ch) == removeOldest([ch EXCEPT !.evicted = <<>>])

\* Cache.Clear
RECURSIVE clearLoop(_)
clearLoop(ch) == IF Len(ch.ll) > 0 THEN clearLoop(removeOldest(ch)) ELSE ch

Clear(ch) == clearLoop([ch EXCEPT !.evicted = <<>>])

\* Cache.Len
CacheLen(ch) == Len(ch.ll)


\* ------------------------------------------------------------ byteview.go
\* cloneBytes: a new slice of the same length with every byte copied
cloneBytes(b) == [i \in 1..Len(b) |-> b[i]]

\* --------------------------------------------------------------- cache.go
\* cache.add: the LRU is built on first use, then lru.Add
cacheAdd(ch, maxB, k, v) ==
  Add(IF ch = NoLru THEN New(maxB, FALSE) ELSE ch, k, v)

\* cache.get: a miss while the LRU is not built, else lru.Get
cacheGet(ch, k) ==
  IF ch = NoLru THEN [ch |-> ch, value |-> NoBytes, ok |-> FALSE]
  ELSE Get(ch, k)

\* ------------------------------------------- cache.go (consistenthash.Map)
\* []byte(s) for the strings the model uses as keys and node names
Utf8 ==
  [s \in {"", "a", "bb", "k1", "k2", "k3", "k4", "B", "C", "2", "4", "12",
          "11", "23", "27"} |->
     CASE s = "" -> <<>>
       [] s = "a" -> <<97>>
       [] s = "bb" -> <<98, 98>>
       [] s = "k1" -> <<107, 49>>
       [] s = "k2" -> <<107, 50>>
       [] s = "k3" -> <<107, 51>>
       [] s = "k4" -> <<107, 52>>
       [] s = "B" -> <<66>>
       [] s = "C" -> <<67>>
       [] s = "2" -> <<50>>
       [] s = "4" -> <<52>>
       [] s = "12" -> <<49, 50>>
       [] s = "11" -> <<49, 49>>
       [] s = "23" -> <<50, 51>>
       [] s = "27" -> <<50, 55>>]

\* strconv.Itoa(i) as bytes, for i >= 0
RECURSIVE Itoa(_)
Itoa(i) ==
  IF i < 10 THEN <<48 + i>> ELSE Itoa(i \div 10) \o <<48 + (i % 10)>>

\* a uint32 is kept as <<high 16 bits, low 16 bits>>
\* bitwise exclusive or of two n-bit numbers
RECURSIVE xorBits(_, _, _)
xorBits(a, b, n) ==
  IF n = 0 THEN 0
  ELSE ((a + b) % 2) + 2 * xorBits(a \div 2, b \div 2, n - 1)

xor32(x, y) == <<xorBits(x[1], y[1], 16), xorBits(x[2], y[2], 16)>>

shr1(x) == <<x[1] \div 2, (x[1] % 2) * 32768 + x[2] \div 2>>

\* one bit of the reflected CRC-32 with polynomial 0xEDB88320
crcRound(x) ==
  IF x[2] % 2 = 1 THEN xor32(shr1(x), <<60856, 33568>>) ELSE shr1(x)

RECURSIVE crcRounds(_, _)
crcRounds(x, n) == IF n = 0 THEN x ELSE crcRounds(crcRound(x), n - 1)

RECURSIVE crcUpdate(_, _)
crcUpdate(crc, data) ==
  IF data = <<>> THEN crc
  ELSE crcUpdate(crcRounds(<<crc[1], xorBits(crc[2], Head(data), 16)>>, 8),
                 Tail(data))

\* crc32.ChecksumIEEE(data), the hash of consistenthash.New(replicas, nil)
ChecksumIEEE(data) ==
  xor32(crcUpdate(<<65535, 65535>>, data), <<65535, 65535>>)

\* a caller-supplied Hash: the decimal number the bytes spell, modulo 2^32
\* (0 when they spell none); small enough here to fit the low half
RECURSIVE atoiFrom(_, _)
atoiFrom(data, acc) ==
  IF data = <<>> THEN acc
  ELSE IF Head(data) \in 48..57
       THEN atoiFrom(Tail(data), (acc * 10 + Head(data) - 48) % 65536)
       ELSE 0

atoiHash(data) == <<0, atoiFrom(data, 0)>>

\* m.hash(data)
Hash(fn, data) == IF fn = "crc32" THEN ChecksumIEEE(data) ELSE atoiHash(data)

\* a comparison that leaves out equality
hashGE_strict(a, b) == a[1] > b[1] \/ (a[1] = b[1] /\ a[2] > b[2])

\* m.keys[i] >= hash
hashGE(a, b) == a[1] > b[1] \/ (a[1] = b[1] /\ a[2] >= b[2])

\* consistenthash.New(replicas, fn)
MapNew(replicas, fn) ==
  [replicas |-> replicas, hash |-> IF fn = Nil THEN "crc32" ELSE fn,
   keys |-> <<>>, hashMap |-> <<>>]

\* the hash Map.Add gives the i-th virtual node of a real node
virtualHash(mp, name, i) == Hash(mp.hash, Itoa(i) \o Utf8[name])

\* the hashes the loops of Map.Add append, in order: node by node, and for
\* each node i = 0 .. replicas-1
appended(mp, names) ==
  [n \in 1..(Len(names) * mp.replicas) |->
     virtualHash(mp, names[((n - 1) \div mp.replicas) + 1],
                 (n - 1) % mp.replicas)]

\* m.hashMap[hash] = key in the same order: the last write to a hash stays
written(mp, names) ==
  LET hs == appended(mp, names)
      last(h) == CHOOSE n \in DOMAIN hs :
                   hs[n] = h /\ \A j \in DOMAIN hs : hs[j] = h => j <= n
  IN [h \in {hs[n] : n \in DOMAIN hs} |->
        names[((last(h) - 1) \div mp.replicas) + 1]]

\* sort.Ints: the same numbers in ascending order
sortInts(s) ==
  LET before(j, k) == ~hashGE(s[j], s[k]) \/ (s[j] = s[k] /\ j < k)
      rank(k) == Cardinality({j \in DOMAIN s : before(j, k)}) + 1
  IN [i \in DOMAIN s |-> s[CHOOSE k \in DOMAIN s : rank(k) = i]]

\* an Add that leaves m.keys in insertion order
MapAdd_unsorted(mp, names) ==
  [mp EXCEPT !.keys = @ \o appended(mp, names),
             !.hashMap = written(mp, names) @@ @]

\* Map.Add(keys...)
MapAdd(mp, names) ==
  [mp EXCEPT !.keys = sortInts(@ \o appended(mp, names)),
             !.hashMap = written(mp, names) @@ @]

\* a search that always answers the first index
searchFrom_first(ks, hash, i, j) == 0

\* sort.Search(len(ks), func(i) { return ks[i] >= hash }): binary search
RECURSIVE searchFrom(_, _, _, _)
searchFrom(ks, hash, i, j) ==
  IF i < j
  THEN LET h == (i + j) \div 2
       IN IF ~hashGE(ks[h + 1], hash) THEN searchFrom(ks, hash, h + 1, j)
          ELSE searchFrom(ks, hash, i, h)
  ELSE i

\* Map.Get(key)
MapGet(mp, k) ==
  IF Len(mp.keys) = 0 THEN ""
  ELSE LET hash == Hash(mp.hash, Utf8[k])
           idx == searchFrom(mp.keys, hash, 0, Len(mp.keys))
       IN mp.hashMap[mp.keys[(idx % Len(mp.keys)) + 1]]

\* -------------------------------------------- singleflight/singleflight.go
Procs == 1..NProcs

\* new(call) with wg.Add(1); owner, removed and steps (what fn has done so
\* far) are bookkeeping of the proof
NewCall(k, t) ==
  [key |-> k, wg |-> 1, val |-> NoBytes, err |-> Nil, owner |-> t,
   removed |-> FALSE, steps |-> <<>>]

\* fn of call i has done e
step(cs, i, e) == [cs EXCEPT ![i].steps = Append(@, e)]

\* a lookup that never finds the in-flight call
sfLookup_miss(mm, k) == FALSE

\* c, ok := g.m[key]
sfLookup(mm, k) == k \in DOMAIN mm

\* g.m[key] = c
sfRegister(mm, k, id) == (k :> id) @@ mm

\* a delete that leaves the record in the map
sfDelete_keep(mm, k) == mm

\* delete(g.m, key)
sfDelete(mm, k) == [x \in DOMAIN mm \ {k} |-> mm[x]]

\* a Wait that returns while the counter is still positive
wgWait_early(cl) == TRUE

\* c.wg.Wait() can return: the counter is zero
wgWait(cl) == cl.wg = 0

\* what Group.load hands back from Do's (val, err)
loadResult(cl) ==
  IF cl.err = Nil THEN [val |-> cl.val, err |-> Nil]
  ELSE [val |-> NoBytes, err |-> cl.err]

\* ------------------------- unnamed/part_000 (HTTPPool as PeerPicker), http.go
defaultReplicas == 50

\* Group.peers == nil: RegisterPeers was never called
NoPeers ==
  [registered |-> FALSE, self |-> "", set |-> FALSE, ring |-> MapNew(0, Nil)]

\* NewHTTPPool(self), registered with the group; p.peers is still nil
NewHTTPPool(self) ==
  [registered |-> TRUE, self |-> self, set |-> FALSE, ring |-> MapNew(0, Nil)]

\* p.Set(names...): a new ring of defaultReplicas virtual nodes per peer
Set(p, names) ==
  [p EXCEPT !.set = TRUE,
            !.ring = MapAdd(MapNew(defaultReplicas, Nil), names)]

\* p.peers.Get(key) on a nil p.peers: len(m.keys) dereferences nil
PickPeerPanics == peers.registered /\ ~peers.set

\* HTTPPool.PickPeer: ok iff the ring names an owner other than self
PickPeer(k) ==
  LET peer == MapGet(peers.ring, k)
  IN peer # "" /\ peer # peers.self

\* no populateCache is pending a read
NoPop == [state |-> "none", key |-> "", value |-> NoBytes, ok |-> FALSE,
          got |-> NoBytes, call |-> 0, by |-> 0]

Finished(t) == pc[t] \in {"done", "panicked"}

\* the read that follows a populateCache, remembered for the round trip
readAfterPop(t, k, r) ==
  IF lastPop.state = "written" /\ lastPop.key = k
  THEN [lastPop EXCEPT !.state = "read", !.ok = r.ok, !.got = r.value,
                       !.by = t]
  ELSE NoPop

\* a key check that lets every key through
keyRequired_never(k) == FALSE

\* Group.Get: key == "" is rejected before anything else
keyRequired(k) == k = ""

\* Group.Get up to the call of load: key check, then mainCache.get. The key
\* check touches no shared state, so the call is taken to start at the
\* locked lookup; cache.get and cache.add run wholly under cache.mu and are
\* one step each.
GroupGet(t, k) ==
  /\ t \in procs /\ k \in keys
  /\ pc[t] \in {"idle", "done", "panicked"}
  /\ gets < maxGets
  /\ gets' = gets + 1
  /\ allConc' = (allConc /\ \A u \in Procs : ~Finished(u))
  /\ key' = [key EXCEPT ![t] = k]
  /\ c' = [c EXCEPT ![t] = 0]
  /\ bytes' = [bytes EXCEPT ![t] = NoBytes]
  /\ IF keyRequired(k)
     THEN /\ pc' = [pc EXCEPT ![t] = "done"]
          /\ ret' = [ret EXCEPT ![t] = [val |-> NoBytes, err |-> ErrKey]]
          /\ UNCHANGED <<lru, lastPop>>
     ELSE /\ cmu = 0
          /\ LET r == cacheGet(lru, k)
             IN /\ lru' = r.ch
                /\ lastPop' = readAfterPop(t, k, r)
                /\ IF r.ok
                   THEN /\ pc' = [pc EXCEPT ![t] = "done"]
                        /\ ret' = [ret EXCEPT
                                     ![t] = [val |-> r.value, err |-> Nil]]
                   ELSE /\ pc' = [pc EXCEPT ![t] = "load"]
                        /\ ret' = [ret EXCEPT
                                     ![t] = [val |-> NoBytes, err |-> Nil]]
  /\ UNCHANGED <<cfgVars, harnessVars, lmu, cmu, m, calls, loads, peerGets>>

\* Do, lines 20-32: join the in-flight call or register a new one
DoEnter(t) ==
  /\ pc[t] = "load"
  /\ IF sfLookup(m, key[t])
     THEN /\ c' = [c EXCEPT ![t] = m[key[t]]]
          /\ pc' = [pc EXCEPT ![t] = "wait"]
          /\ UNCHANGED <<m, calls>>
     ELSE /\ calls' = Append(calls, NewCall(key[t], t))
          /\ m' = sfRegister(m, key[t], Len(calls) + 1)
          /\ c' = [c EXCEPT ![t] = Len(calls) + 1]
          /\ pc' = [pc EXCEPT ![t] = "fn"]
  /\ UNCHANGED <<cfgVars, harnessVars, lru, lmu, cmu, key, bytes, ret, gets,
                 loads, peerGets, allConc, lastPop>>

\* Do, lines 26-27: c.wg.Wait() returns, the waiter returns c.val, c.err
DoWait(t) ==
  /\ pc[t] = "wait"
  /\ wgWait(calls[c[t]])
  /\ pc' = [pc EXCEPT ![t] = "done"]
  /\ ret' = [ret EXCEPT ![t] = loadResult(calls[c[t]])]
  /\ UNCHANGED <<cfgVars, harnessVars, lru, lmu, cmu, m, calls, key, c,
                 bytes, gets, loads, peerGets, allConc, lastPop>>

\* a closure that takes cache.mu before it calls the peer or the loader
FnStart_holdMu(t) ==
  /\ pc[t] = "fn"
  /\ cmu = 0
  /\ cmu' = t
  /\ pc' = [pc EXCEPT ![t] = "getter"]
  /\ loads' = [loads EXCEPT ![key[t]] = @ + 1]
  /\ calls' = step(calls, c[t], "local")
  /\ UNCHANGED <<cfgVars, harnessVars, lru, lmu, m, key, c, bytes, ret, gets,
                 peerGets, allConc, lastPop>>

\* the closure of Group.load: pick a peer, else getLocally calls the loader
FnStart(t) ==
  /\ pc[t] = "fn"
  /\ ~PickPeerPanics
  /\ IF peers.registered /\ PickPeer(key[t])
     THEN /\ pc' = [pc EXCEPT ![t] = "peerGet"]
          /\ peerGets' = [peerGets EXCEPT ![key[t]] = @ + 1]
          /\ calls' = step(calls, c[t], "peer")
          /\ UNCHANGED loads
     ELSE /\ pc' = [pc EXCEPT ![t] = "getter"]
          /\ loads' = [loads EXCEPT ![key[t]] = @ + 1]
          /\ calls' = step(calls, c[t], "local")
          /\ UNCHANGED peerGets
  /\ UNCHANGED <<cfgVars, harnessVars, lru, lmu, cmu, m, key, c, bytes, ret,
                 gets, allConc, lastPop>>

\* the closure of Group.load on a pool whose Set was never called: PickPeer
\* panics on the nil ring (its deferred Unlock releases p.mu) and, Do having
\* no defer, the goroutine unwinds out of Get with the call still registered
PickPeerPanic(t) ==
  /\ pc[t] = "fn"
  /\ PickPeerPanics
  /\ pc' = [pc EXCEPT ![t] = "panicked"]
  /\ calls' = step(calls, c[t], "pickPanic")
  /\ UNCHANGED <<cfgVars, harnessVars, lru, lmu, cmu, m, key, c, bytes, ret,
                 gets, loads, peerGets, allConc, lastPop>>

\* getFromPeer succeeds: fn returns ByteView{b: bytes}, nothing is cached
PeerOk(t, v) ==
  /\ pc[t] = "peerGet"
  /\ calls' = step([calls EXCEPT ![c[t]].val = v, ![c[t]].err = Nil],
                  c[t], "peerOk")
  /\ bytes' = [bytes EXCEPT ![t] = v]
  /\ pc' = [pc EXCEPT ![t] = "wgDone"]
  /\ UNCHANGED <<cfgVars, harnessVars, lru, lmu, cmu, m, key, c, ret, gets,
                 loads, peerGets, allConc, lastPop>>

\* a peer failure that fn returns to Do instead of falling back
PeerFail_surface(t) ==
  /\ pc[t] = "peerGet"
  /\ pc' = [pc EXCEPT ![t] = "wgDone"]
  /\ calls' = step([calls EXCEPT ![c[t]].val = NoBytes,
                                  ![c[t]].err = ErrPeer], c[t], "peerErr")
  /\ UNCHANGED <<cfgVars, harnessVars, lru, lmu, cmu, m, key, c, bytes, ret,
                 gets, loads, peerGets, allConc, lastPop>>

\* getFromPeer fails: logged, then getLocally calls the loader
PeerFail(t) ==
  /\ pc[t] = "peerGet"
  /\ pc' = [pc EXCEPT ![t] = "getter"]
  /\ loads' = [loads EXCEPT ![key[t]] = @ + 1]
  /\ calls' = step(step(calls, c[t], "peerErr"), c[t], "local")
  /\ UNCHANGED <<cfgVars, harnessVars, lru, lmu, cmu, m, key, c, bytes, ret,
                 gets, peerGets, allConc, lastPop>>

\* getLocally: the loader returns bytes, which are cloned into a ByteView
GetterOk(t, v) ==
  /\ pc[t] = "getter"
  /\ bytes' = [bytes EXCEPT ![t] = cloneBytes(v)]
  /\ pc' = [pc EXCEPT ![t] = "populate"]
  /\ calls' = step(calls, c[t], "loaded")
  /\ UNCHANGED <<cfgVars, harnessVars, lru, lmu, cmu, m, key, c, ret, gets,
                 loads, peerGets, allConc, lastPop>>

\* getLocally: the loader returns an error, fn returns (ByteView{}, err)
GetterErr(t) ==
  /\ pc[t] = "getter"
  /\ calls' = step([calls EXCEPT ![c[t]].val = NoBytes,
                                  ![c[t]].err = ErrLoad], c[t], "loadErr")
  /\ pc' = [pc EXCEPT ![t] = "wgDone"]
  /\ UNCHANGED <<cfgVars, harnessVars, lru, lmu, cmu, m, key, c, bytes, ret,
                 gets, loads, peerGets, allConc, lastPop>>

\* the loader panics: Do has no defer, so lines 36-42 are skipped and the
\* goroutine unwinds out of Get (the panic is recovered by the caller, as
\* net/http does around ServeHTTP)
GetterPanic(t) ==
  /\ pc[t] = "getter"
  /\ pc' = [pc EXCEPT ![t] = "panicked"]
  /\ calls' = step(calls, c[t], "loadPanic")
  /\ UNCHANGED <<cfgVars, harnessVars, lru, lmu, cmu, m, key, c, bytes, ret,
                 gets, loads, peerGets, allConc, lastPop>>

\* populateCache -> cache.add -> lru.Add, then fn returns (value, nil)
Populate(t) ==
  /\ pc[t] = "populate"
  /\ cmu = 0
  /\ LET r == cacheAdd(lru, cacheBytes, key[t], bytes[t])
     IN /\ lru' = r.ch
        /\ IF r.spin
           THEN /\ cmu' = t /\ lmu' = t
                /\ pc' = [pc EXCEPT ![t] = "spin"]
                /\ calls' = step(calls, c[t], "addSpin")
                /\ UNCHANGED lastPop
           ELSE /\ UNCHANGED <<cmu, lmu>>
                /\ pc' = [pc EXCEPT ![t] = "wgDone"]
                /\ calls' = step([calls EXCEPT ![c[t]].val = bytes[t],
                                               ![c[t]].err = Nil],
                                 c[t], "add")
                /\ lastPop' = [NoPop EXCEPT !.state = "written",
                                             !.key = key[t],
                                             !.value = bytes[t],
                                             !.call = c[t]]
  /\ UNCHANGED <<cfgVars, harnessVars, m, key, c, bytes, ret, gets, loads,
                 peerGets, allConc>>

\* Do, line 36: c.wg.Done()
WgDone(t) ==
  /\ pc[t] = "wgDone"
  /\ calls' = [calls EXCEPT ![c[t]].wg = @ - 1]
  /\ pc' = [pc EXCEPT ![t] = "delete"]
  /\ UNCHANGED <<cfgVars, harnessVars, lru, lmu, cmu, m, key, c, bytes, ret,
                 gets, loads, peerGets, allConc, lastPop>>

\* Do, lines 38-42: delete(g.m, key) under the lock, return c.val, c.err
DoDelete(t) ==
  /\ pc[t] = "delete"
  /\ m' = sfDelete(m, key[t])
  /\ calls' = [calls EXCEPT ![c[t]].removed = TRUE]
  /\ pc' = [pc EXCEPT ![t] = "done"]
  /\ ret' = [ret EXCEPT ![t] = loadResult(calls[c[t]])]
  /\ UNCHANGED <<cfgVars, harnessVars, lru, lmu, cmu, key, c, bytes, gets,
                 loads, peerGets, allConc, lastPop>>

\* ring harness: no Map.Get since the last Add
NoLookup == [valid |-> FALSE, key |-> "", owner |-> ""]

\* the ring harness before consistenthash.New
RingIdle == ring = MapNew(0, Nil) /\ added = <<>> /\ lookup = NoLookup

\* LRU harness: no operation applied yet
NoOp == [op |-> "none", key |-> "", value |-> NoBytes, ok |-> FALSE]

\* NewGroup(name, cacheBytes, getter), before any Get
GroupInit(ks, ps, budget, n, vs, pk) ==
  /\ lru = NoLru /\ lmu = 0 /\ cmu = 0
  /\ cacheBytes = budget /\ keys = ks /\ procs = ps /\ maxGets = n
  /\ vals = vs
  /\ peers = pk
  /\ m = <<>> /\ calls = <<>>
  /\ pc = [t \in Procs |-> "idle"]
  /\ key = [t \in Procs |-> ""]
  /\ c = [t \in Procs |-> 0]
  /\ bytes = [t \in Procs |-> NoBytes]
  /\ ret = [t \in Procs |-> [val |-> NoBytes, err |-> Nil]]
  /\ gets = 0
  /\ loads = [k \in ks |-> 0]
  /\ peerGets = [k \in ks |-> 0]
  /\ allConc = TRUE
  /\ lastPop = NoPop
  /\ lastOp = NoOp /\ alog = <<>>
  /\ RingIdle

\* a concurrent workload, or one goroutine asking for k1..k4 in any order
Init ==
  \/ \E b \in ConcBudgets, pk \in {NoPeers, Set(NewHTTPPool("C"), PoolPeers)} :
       GroupInit(ConcKeys, Procs, b, MaxGets, Values, pk)
  \/ \E pk \in {NewHTTPPool("C"), Set(NewHTTPPool("C"), <<>>)} :
       GroupInit(ConcKeys, Procs, 0, MaxGets, Values, pk)
  \/ GroupInit(SeqKeys, {1}, SeqBudget, SeqGets, SeqValues, NoPeers)

Next ==
  \/ \E t \in Procs, k \in keys : GroupGet(t, k)
  \/ \E t \in Procs : DoEnter(t)
  \/ \E t \in Procs : DoWait(t)
  \/ \E t \in Procs : FnStart(t)
  \/ \E t \in Procs : PickPeerPanic(t)
  \/ \E t \in Procs, v \in vals : PeerOk(t, v)
  \/ \E t \in Procs : PeerFail(t)
  \/ \E t \in Procs, v \in vals : GetterOk(t, v)
  \/ \E t \in Procs : GetterErr(t)
  \/ \E t \in Procs : GetterPanic(t)
  \/ \E t \in Procs : Populate(t)
  \/ \E t \in Procs : WgDone(t)
  \/ \E t \in Procs : DoDelete(t)

Spec == Init /\ [][Next]_vars


\* --------------------------------------------- lru.Cache driven directly
\* the access log after k was added or hit: k first, the rest in order
touch(log, k) == <<k>> \o SelectSeq(log, LAMBDA x : x # k)

\* c.Add(k, v) on the harness cache
LruAdd(k, v) ==
  /\ lmu = 0
  /\ LET r == Add(lru, k, v)
     IN /\ lru' = r.ch
        /\ lmu' = IF r.spin THEN 1 ELSE 0
        /\ lastOp' = [op |-> IF r.spin THEN "AddSpin" ELSE "Add", key |-> k,
                      value |-> v, ok |-> TRUE]
  /\ alog' = touch(alog, k)
  /\ UNCHANGED <<groupVars, ringVars>>

\* c.Get(k) on the harness cache
LruGet(k) ==
  /\ lmu = 0
  /\ LET r == Get(lru, k)
     IN /\ lru' = r.ch
        /\ lastOp' = [op |-> "Get", key |-> k, value |-> r.value,
                      ok |-> r.ok]
        /\ alog' = IF r.ok THEN touch(alog, k) ELSE alog
  /\ UNCHANGED <<groupVars, ringVars, lmu>>

\* c.RemoveOldest() on the harness cache
LruRemoveOldest ==
  /\ lmu = 0
  /\ lru' = RemoveOldest(lru)
  /\ lastOp' = [NoOp EXCEPT !.op = "RemoveOldest"]
  /\ UNCHANGED <<groupVars, ringVars, lmu, alog>>

\* c.Clear() on the harness cache
LruClear ==
  /\ lmu = 0
  /\ lru' = Clear(lru)
  /\ lastOp' = [NoOp EXCEPT !.op = "Clear"]
  /\ UNCHANGED <<groupVars, ringVars, lmu, alog>>

\* lru.New(maxBytes, onEvicted) with a recording callback
InitLRU ==
  /\ \E b \in LruBudgets : lru = New(b, TRUE)
  /\ lmu = 0 /\ cmu = 0
  /\ cacheBytes = 0 /\ keys = LruKeys /\ procs = {} /\ maxGets = 0
  /\ vals = Values /\ peers = NoPeers
  /\ m = <<>> /\ calls = <<>>
  /\ pc = [t \in Procs |-> "idle"]
  /\ key = [t \in Procs |-> ""]
  /\ c = [t \in Procs |-> 0]
  /\ bytes = [t \in Procs |-> NoBytes]
  /\ ret = [t \in Procs |-> [val |-> NoBytes, err |-> Nil]]
  /\ gets = 0
  /\ loads = [k \in LruKeys |-> 0]
  /\ peerGets = [k \in LruKeys |-> 0]
  /\ allConc = TRUE
  /\ lastPop = NoPop
  /\ lastOp = NoOp /\ alog = <<>>
  /\ RingIdle

NextLRU ==
  \/ \E k \in keys, v \in vals : LruAdd(k, v)
  \/ \E k \in keys : LruGet(k)
  \/ LruRemoveOldest
  \/ LruClear

SpecLRU == InitLRU /\ [][NextLRU]_vars

\* ------------------------------------- consistenthash.Map driven directly
\* the argument lists of one Add call: distinct nodes not added before
AddLists ==
  LET free == RingNodes \ Range(added)
  IN {s \in UNION {[1..n -> free] : n \in 1..Cardinality(free)} :
        \A i, j \in DOMAIN s : s[i] = s[j] => i = j}

\* m.Add(names...) on the harness ring
RingAdd(names) ==
  /\ ring' = MapAdd(ring, names)
  /\ added' = added \o names
  /\ lookup' = NoLookup
  /\ UNCHANGED <<groupVars, lru, lmu, lastOp, alog>>

\* m.Get(k) on the harness ring
RingGet(k) ==
  /\ lookup' = [valid |-> TRUE, key |-> k, owner |-> MapGet(ring, k)]
  /\ UNCHANGED <<groupVars, lru, lmu, lastOp, alog, ring, added>>

\* consistenthash.New(replicas, fn)
InitRing ==
  /\ \E r \in 1..MaxReplicas, fn \in HashFns : ring = MapNew(r, fn)
  /\ added = <<>> /\ lookup = NoLookup
  /\ lru = NoLru /\ lmu = 0 /\ cmu = 0
  /\ cacheBytes = 0 /\ keys = RingKeys /\ procs = {} /\ maxGets = 0
  /\ vals = Values /\ peers = NoPeers
  /\ m = <<>> /\ calls = <<>>
  /\ pc = [t \in Procs |-> "idle"]
  /\ key = [t \in Procs |-> ""]
  /\ c = [t \in Procs |-> 0]
  /\ bytes = [t \in Procs |-> NoBytes]
  /\ ret = [t \in Procs |-> [val |-> NoBytes, err |-> Nil]]
  /\ gets = 0
  /\ loads = [k \in RingKeys |-> 0]
  /\ peerGets = [k \in RingKeys |-> 0]
  /\ allConc = TRUE
  /\ lastPop = NoPop
  /\ lastOp = NoOp /\ alog = <<>>

NextRing ==
  \/ \E names \in AddLists : RingAdd(names)
  \/ \E k \in keys : RingGet(k)

SpecRing == InitRing /\ [][NextRing]_vars

\* ------------------------------------------------------------ properties
\* the entries of the recency list, front to back
Entries(ch) == [i \in 1..Len(ch.ll) |-> ch.elem[ch.ll[i]]]

\* the keys of the recency list, front to back
ListKeys(ch) == [i \in 1..Len(ch.ll) |-> ch.elem[ch.ll[i]].key]

RECURSIVE SumSizes(_)
SumSizes(es) ==
  IF es = <<>> THEN 0
  ELSE Len(es[1].key) + Len(es[1].value) + SumSizes(Tail(es))

\* C6: after any sequence of Add, Get, RemoveOldest and Clear, nbytes is the
\* sum of len(key) + value.Len() over the live entries, and nbytes is at most
\* maxBytes whenever maxBytes > 0.
C6_ByteBudget ==
  /\ lru.nbytes = SumSizes(Entries(lru))
  /\ lru.maxBytes > 0 => lru.nbytes <= lru.maxBytes

\* C6 witness: an Add that evicted an older entry and left the cache
\* non-empty and exactly at its positive budget
C6_Witness ==
  /\ lastOp.op = "Add" /\ lru.maxBytes > 0
  /\ lru.evicted # <<>>
  /\ Len(lru.ll) >= 1
  /\ lru.nbytes = lru.maxBytes


\* an entry of this size stays in a cache with this budget
Fits(ch, k, v) == ch.maxBytes = 0 \/ Len(k) + Len(v) <= ch.maxBytes

\* the index and the recency list describe the same entries, one to one
IndexMatchesList(ch) ==
  /\ \A k \in DOMAIN ch.cache :
       ch.cache[k] \in Range(ch.ll) /\ ch.elem[ch.cache[k]].key = k
  /\ \A i \in 1..Len(ch.ll) :
       /\ ch.elem[ch.ll[i]].key \in DOMAIN ch.cache
       /\ ch.cache[ch.elem[ch.ll[i]].key] = ch.ll[i]
  /\ \A i, j \in 1..Len(ch.ll) : ch.ll[i] = ch.ll[j] => i = j
  /\ Cardinality(DOMAIN ch.cache) = Len(ch.ll)

\* front to back, the live keys are in the order of their last Add / Get hit
RecencyOrder(ch) ==
  ListKeys(ch) = SelectSeq(alog, LAMBDA k : k \in DOMAIN ch.cache)

\* C7 as stated: after Add(k, v) returns or Get(k) hits, k is the front
\* entry; the list is in order of last access; index and list are in
\* one-to-one correspondence.
C7_FrontAfterEveryAdd ==
  /\ (lastOp.op = "Add" \/ (lastOp.op = "Get" /\ lastOp.ok)) =>
       (lru.ll # <<>> /\ ListKeys(lru)[1] = lastOp.key)
  /\ RecencyOrder(lru)
  /\ IndexMatchesList(lru)

\* C7 amended: after Get(k) hits, and after Add(k, v) returns for an entry
\* that fits the budget (maxBytes = 0 or len(k) + v.Len() <= maxBytes), k is
\* the front entry; an Add of an entry larger than a positive maxBytes evicts
\* that entry too and returns with an empty list; the list is in order of
\* last access; index and list are in one-to-one correspondence.
C7_RecencyOrder ==
  /\ (lastOp.op = "Get" /\ lastOp.ok) =>
       (lru.ll # <<>> /\ ListKeys(lru)[1] = lastOp.key)
  /\ (lastOp.op = "Add" /\ Fits(lru, lastOp.key, lastOp.value)) =>
       (lru.ll # <<>> /\ ListKeys(lru)[1] = lastOp.key)
  /\ (lastOp.op = "Add" /\ ~Fits(lru, lastOp.key, lastOp.value)) =>
       lru.ll = <<>>
  /\ RecencyOrder(lru)
  /\ IndexMatchesList(lru)

\* C7 witness: a Get hit on a list of two entries after an older key was
\* evicted, so the hit moved an entry and the log holds a dead key
C7_Witness ==
  /\ lastOp.op = "Get" /\ lastOp.ok
  /\ Len(lru.ll) = 2
  /\ Len(alog) = 3


\* positions at which a goroutine is executing fn inside Do
FnStates == {"fn", "peerGet", "getter", "populate", "spin"}

\* the goroutine holds the call it registered itself
Producer(t) == c[t] # 0 /\ calls[c[t]].owner = t

\* the goroutine joined a call another goroutine registered
Waiter(t) == c[t] # 0 /\ calls[c[t]].owner # t

\* fn of call i has returned (its result is stored or being stored)
FnCompleted(i) ==
  \/ calls[i].wg = 0
  \/ pc[calls[i].owner] = "wgDone" /\ c[calls[i].owner] = i

\* the calls registered so far for key k
CallsFor(k) == {i \in 1..Len(calls) : calls[i].key = k}

\* C1 as stated: when every Get so far is for the same key k, missed the
\* cache and started before any Get returned, the loader has run at most
\* once for k, all callers that returned got the same (value, error), and
\* once all have returned with no peer owning k the loader ran exactly once
\* (stated here for the runs in which no loader call has failed).
C1_LoaderOncePerKey ==
  \A k \in keys \ {""} :
    (/\ allConc
     /\ \A i \in 1..Len(calls) : calls[i].err = Nil
     /\ \A t \in Procs : pc[t] # "idle" =>
          (key[t] = k /\ (pc[t] = "load" \/ c[t] # 0)))
    => /\ loads[k] <= 1
       /\ \A t, u \in Procs :
            (pc[t] = "done" /\ pc[u] = "done") => ret[t] = ret[u]
       /\ ((\E t \in Procs : pc[t] = "done")
           /\ (\A t \in Procs : pc[t] \in {"idle", "done"})
           /\ ~(peers.registered /\ PickPeer(k))) => loads[k] = 1

\* C2: at most one goroutine is executing fn for a given key at any time.
C2_OneFnPerKey ==
  \A k \in keys :
    Cardinality({t \in Procs : pc[t] \in FnStates /\ key[t] = k}) <= 1

\* C2 witness: one goroutine is inside the loader for a key while another
\* goroutine has entered Do for the same key and is waiting
C2_Witness ==
  \E t, u \in Procs :
    /\ pc[t] = "getter" /\ pc[u] = "wait"
    /\ key[t] = key[u] /\ c[u] = c[t]

\* C3: a caller that found an in-flight call never executes fn itself, and
\* what it returns is the (value, error) stored in that call by the caller
\* that registered it.
C3_WaitersShareResult ==
  \A t \in Procs :
    Waiter(t) =>
      /\ pc[t] \in {"wait", "done"}
      /\ pc[t] = "done" =>
           /\ ret[t] = [val |-> calls[c[t]].val, err |-> calls[c[t]].err]
           /\ FnCompleted(c[t])

\* C3 witness: a waiter has returned the loader error of the producer
C3_Witness ==
  \E t \in Procs :
    /\ Waiter(t) /\ pc[t] = "done"
    /\ ret[t].err = ErrLoad
    /\ pc[calls[c[t]].owner] = "delete"

\* a goroutine passes lines 20-32 of Do in this step
Arrives(t) == pc[t] = "load" /\ pc'[t] # "load"

\* the goroutine registered a new call and goes on to execute its own fn
StartsFresh(t) ==
  /\ pc'[t] = "fn"
  /\ c'[t] = Len(calls) + 1
  /\ Len(calls') = Len(calls) + 1
  /\ calls'[c'[t]].owner = t

\* C4 as stated: a Do that arrives when fn has completed in every earlier Do
\* for its key executes its own fn.
C4_FreshAfterFnCompleted ==
  [][\A t \in Procs :
       (/\ Arrives(t)
        /\ CallsFor(key[t]) # {}
        /\ \A i \in CallsFor(key[t]) : FnCompleted(i))
       => StartsFresh(t)]_vars

\* C4 amended: a Do that arrives after every earlier Do for its key has
\* removed its record (line 39) registers a new call and executes its own
\* fn; a Do that arrives after fn completed but before the record is removed
\* joins that call and does not execute fn.
C4_FreshAfterRemoval ==
  [][\A t \in Procs :
       /\ (/\ Arrives(t)
           /\ \A i \in CallsFor(key[t]) : calls[i].removed)
          => StartsFresh(t)
       /\ \A i \in CallsFor(key[t]) :
            (Arrives(t) /\ FnCompleted(i) /\ ~calls[i].removed)
            => (pc'[t] = "wait" /\ c'[t] = i /\ calls' = calls)]_vars

\* C4 witness: a goroutine executes fn for a key whose earlier call has
\* completed and been removed
C4_Witness ==
  \E t \in Procs :
    /\ pc[t] = "getter" /\ Producer(t)
    /\ \E i \in CallsFor(key[t]) : i < c[t] /\ calls[i].removed

\* C5 as stated: once the producer has left Do, by return or by a panic of
\* fn, the waiters of its call are released, a failure is what they get,
\* and the key no longer maps to that call.
C5_FailureReleasesKey ==
  \A t \in Procs :
    (Producer(t) /\ Finished(t)) =>
      /\ calls[c[t]].wg = 0
      /\ ~(sfLookup(m, key[t]) /\ m[key[t]] = c[t])
      /\ pc[t] = "panicked" => calls[c[t]].err # Nil


\* the entries of mainCache.lru, front to back (none before the first add)
CacheEntries(ch) == IF ch = NoLru THEN <<>> ELSE Entries(ch)

\* the recency list lru.Add works on once (k, v) is in front
Inserted(ch, k, v) ==
  <<[key |-> k, value |-> v]>>
    \o SelectSeq(CacheEntries(ch), LAMBDA e : e.key # k)

\* populateCache by t returns in this step: what Add kept is a prefix of the
\* list with (k, v) in front, so every evicted entry was at the back; the
\* last eviction started over budget; the loop did not stop over budget
AddEvictsFromBack(t) ==
  LET ins == Inserted(lru, key[t], bytes[t])
      post == CacheEntries(lru')
  IN /\ Len(post) <= Len(ins)
     /\ post = SubSeq(ins, 1, Len(post))
     /\ Len(post) < Len(ins) =>
          /\ cacheBytes # 0
          /\ SumSizes(SubSeq(ins, 1, Len(post) + 1)) > cacheBytes
     /\ cacheBytes # 0 => SumSizes(post) <= cacheBytes

\* the first four Gets of a lone goroutine loaded four different keys, with
\* a budget that holds any two of the four entries and no three of them
FourLoaded ==
  /\ procs = {1} /\ gets = 5 /\ Len(calls) >= 4 /\ c[1] \notin 1..4
  /\ \A i \in 1..4 : calls[i].err = Nil /\ calls[i].removed
  /\ \A i, j \in 1..4 : i # j =>
       /\ calls[i].key # calls[j].key
       /\ Len(calls[i].key) + Len(calls[i].val)
            + Len(calls[j].key) + Len(calls[j].val) <= cacheBytes
  /\ \A i, j, l \in 1..4 : (i # j /\ i # l /\ j # l) =>
       Len(calls[i].key) + Len(calls[i].val)
         + Len(calls[j].key) + Len(calls[j].val)
         + Len(calls[l].key) + Len(calls[l].val) > cacheBytes

\* after Get(k1)..Get(k4), Get(k1) misses and runs the loader a second time,
\* Get(k4) is a hit and does not
SequentialEviction ==
  FourLoaded =>
    /\ key[1] = calls[1].key =>
         /\ pc[1] = "load" \/ c[1] = 5
         /\ pc[1] = "done" => loads[key[1]] = 2
    /\ key[1] = calls[4].key =>
         /\ pc[1] = "done" /\ c[1] = 0
         /\ loads[key[1]] = 1
         /\ ret[1] = [val |-> calls[4].val, err |-> Nil]

\* C8: Add evicts only while maxBytes # 0 and nbytes > maxBytes, stops as
\* soon as nbytes <= maxBytes, and evicts the back of the recency list each
\* time; so with a budget for two entries, after sequential Get of k1..k4
\* the next Get(k1) runs the loader again and the next Get(k4) does not.
C8_EvictsLeastRecent ==
  /\ [][\A t \in Procs :
          /\ (pc[t] = "populate" /\ pc'[t] = "wgDone") => AddEvictsFromBack(t)
          /\ (pc[t] = "populate" /\ pc'[t] = "spin") =>
               (cacheBytes < 0 /\ CacheEntries(lru') = <<>>)]_vars
  /\ []SequentialEviction

\* C8 witness: after four loads of different keys the lone goroutine asked
\* for the first key again and had to load it a second time
C8_Witness ==
  /\ FourLoaded
  /\ key[1] = calls[1].key /\ pc[1] = "done" /\ c[1] = 5
  /\ ret[1].err = Nil

\* key k is live in the cache
InCache(ch, k) == ch # NoLru /\ k \in DOMAIN ch.cache

\* the value cached for a live key
Cached(ch, k) == ch.elem[ch.cache[k]].value

\* a Get of goroutine t returns in this step
Returns(t) == pc'[t] = "done" /\ (pc[t] # "done" \/ gets' # gets)

\* C9 as stated: a Get(k) that returns while k is live in the cache with the
\* value v of the last populateCache(k, v) returns (v, nil).
C9_GetSeesPopulated ==
  [][\A t \in Procs :
       (Returns(t) /\ InCache(lru, key'[t])) =>
         ret'[t] = [val |-> Cached(lru, key'[t]), err |-> Nil]]_vars

\* C10 as stated: the Get(k) that comes right after populateCache(k, v) is a
\* cache hit that returns v, whatever the sizes and the budget.
C10_RoundTripAlways ==
  lastPop.state = "read" => (lastPop.ok /\ lastPop.got = lastPop.value)

\* C10 amended: the Get(k) that comes right after populateCache(k, v) has
\* returned is a cache hit that returns v byte for byte, with no loader
\* call, provided cacheBytes = 0 or len(k) + len(v) <= cacheBytes; when
\* 0 < cacheBytes < len(k) + len(v) the entry was evicted by its own Add and
\* that Get is a miss.
C10_RoundTrip ==
  lastPop.state = "read" =>
    IF cacheBytes = 0 \/ Len(lastPop.key) + Len(lastPop.value) <= cacheBytes
    THEN lastPop.ok /\ lastPop.got = lastPop.value
    ELSE ~lastPop.ok /\ cacheBytes > 0

\* C10 witness: under a positive budget a value that replaced a shorter one
\* was read back right after its populateCache
C10_Witness ==
  /\ lastPop.state = "read" /\ lastPop.ok
  /\ cacheBytes > 0
  /\ lastPop.got = <<2, 2>>
  /\ \E i, j \in 1..Len(calls) :
       /\ i < j /\ calls[i].key = lastPop.key /\ calls[j].key = lastPop.key
       /\ calls[i].val = <<1>> /\ calls[j].val = <<2, 2>>


\* --------------------------------------------------- consistenthash ring
\* every arrangement of the nodes added so far
Perms(s) == {p \in [DOMAIN s -> Range(s)] : Range(p) = Range(s)}

\* the owner the ring gives each key of the harness
Owners(mp) == [k \in RingKeys |-> MapGet(mp, k)]

\* a fresh ring with the same parameters, given the nodes in one Add call
Rebuilt(p) == MapAdd([ring EXCEPT !.keys = <<>>, !.hashMap = <<>>], p)

\* two virtual nodes of different real nodes have the same hash
Collide ==
  \E n1, n2 \in Range(added), i, j \in 0..(ring.replicas - 1) :
    n1 # n2 /\ virtualHash(ring, n1, i) = virtualHash(ring, n2, j)

\* a repeated Get of the same key returns the same owner
StableGet ==
  (lookup.valid /\ lookup'.valid /\ lookup'.key = lookup.key)
    => lookup'.owner = lookup.owner

\* C11 as stated: for a fixed node set and hash function Map.Get is stable
\* across calls, and adding the nodes in any other order gives every key
\* the same owner.
C11_AnyOrder ==
  [][StableGet]_vars
  /\ [](\A p \in Perms(added) : Owners(Rebuilt(p)) = Owners(ring))

\* C11 amended: Map.Get is stable across calls, and the owner of every key
\* is independent of the order of the nodes provided no two virtual nodes
\* of different real nodes hash to the same value.
C11_OrderIndependent ==
  [][StableGet]_vars
  /\ [](~Collide =>
          \A p \in Perms(added) : Owners(Rebuilt(p)) = Owners(ring))

\* three nodes added out of order, no two virtual nodes collide, a key is
\* looked up and has an owner
C11_Witness ==
  /\ added = <<"4", "2", "12">> /\ ~Collide
  /\ lookup.valid /\ lookup.owner # ""

\* numeric order of two hashes
hashLess(a, b) == a[1] < b[1] \/ (a[1] = b[1] /\ a[2] < b[2])

\* the least hash of a non-empty set
MinHash(hs) == CHOOSE h \in hs : \A g \in hs : ~hashLess(g, h)

\* the first virtual node at or after h, clockwise
Successor(mp, h) ==
  LET hs == Range(mp.keys)
      ge == {g \in hs : ~hashLess(g, h)}
  IN IF ge # {} THEN MinHash(ge) ELSE MinHash(hs)

\* C12: Map.Get returns "" on an empty ring, and otherwise the node mapped
\* to the smallest virtual hash >= hash(key), wrapping to the smallest hash
\* of the ring when none is.
C12_SuccessorOwner ==
  lookup.valid =>
    lookup.owner =
      IF ring.keys = <<>> THEN ""
      ELSE ring.hashMap[Successor(ring, Hash(ring.hash, Utf8[lookup.key]))]

\* a lookup whose hash is past every virtual node wraps to the first one
C12_Witness ==
  /\ lookup.valid /\ Len(ring.keys) >= 2
  /\ \A i \in DOMAIN ring.keys :
       hashLess(ring.keys[i], Hash(ring.hash, Utf8[lookup.key]))
  /\ lookup.owner = ring.hashMap[ring.keys[1]]


\* ------------------------------------------------------------ peer path
\* the pool has no peer: Set was never called, or was called with none
NoPeersRegistered == ~peers.set \/ peers.ring.keys = <<>>

\* the ring of the pool names the local node as the owner of k
OwnerIsSelf(k) == peers.set /\ MapGet(peers.ring, k) = peers.self

\* C13 as stated: with a pool registered, PickPeer answers (nil, false) when
\* the owner of the key is self or the pool has no peers, so the load of
\* such a key goes straight to the local loader and calls no peer.
C13_SelfOrNoPeers ==
  peers.registered =>
    \A i \in DOMAIN calls :
      (calls[i].steps # <<>>
       /\ (NoPeersRegistered \/ OwnerIsSelf(calls[i].key)))
        => calls[i].steps[1] = "local"


\* what fn of call i did after the peer was picked
PeerFailed(i) ==
  /\ Len(calls[i].steps) >= 2
  /\ SubSeq(calls[i].steps, 1, 2) = <<"peer", "peerErr">>

\* the goroutine returns from Group.Get with the result of call i
ReturnedFrom(t, i) == pc[t] = "done" /\ c[t] = i

\* populateCache of goroutine t returns in this step
PopulateReturns(t) == pc[t] = "populate" /\ pc'[t] = "wgDone"

\* C14: when the picked peer's Get fails, the peer error is not returned:
\* fn calls the loader exactly once, a Get that returns from that call
\* returns what the loader returned, and the loader's bytes are added to the
\* local cache (where they stay if they fit the budget).
C14_PeerFailureFallsBack ==
  /\ [][\A t \in Procs :
          (/\ PopulateReturns(t) /\ PeerFailed(c[t])
           /\ Fits(lru', key[t], bytes[t]))
            => (InCache(lru', key[t]) /\ Cached(lru', key[t]) = bytes[t])]_vars
  /\ [](\A i \in DOMAIN calls :
          PeerFailed(i) =>
            /\ calls[i].err # ErrPeer
            /\ Cardinality({n \in DOMAIN calls[i].steps :
                              calls[i].steps[n] = "local"}) = 1
            /\ \A t \in Procs :
                 ReturnedFrom(t, i) =>
                   \/ /\ calls[i].steps =
                           <<"peer", "peerErr", "local", "loaded", "add">>
                      /\ ret[t] = [val |-> calls[i].val, err |-> Nil]
                      /\ calls[i].val \in vals
                   \/ /\ calls[i].steps =
                           <<"peer", "peerErr", "local", "loadErr">>
                      /\ ret[t] = [val |-> NoBytes, err |-> ErrLoad])

\* the peer failed, the loader returned bytes, they were cached and returned
C14_Witness ==
  \E t \in Procs :
    /\ Producer(t) /\ ReturnedFrom(t, c[t]) /\ PeerFailed(c[t])
    /\ ret[t] = [val |-> bytes[t], err |-> Nil] /\ bytes[t] # NoBytes
    /\ InCache(lru, key[t]) /\ Cached(lru, key[t]) = bytes[t]


\* fn of call i got the value from the picked peer
PeerServed(i) == \E n \in DOMAIN calls[i].steps : calls[i].steps[n] = "peerOk"

\* getFromPeer of goroutine t returns bytes in this step
PeerReturns(t) == pc[t] = "peerGet" /\ pc'[t] = "wgDone"

\* the producer returns from Do, and so from Group.Get, in this step
DoReturns(t) == pc[t] = "delete" /\ pc'[t] = "done"

\* C15 as stated: when the picked peer's Get succeeds, Group.Get returns the
\* peer's bytes, the loader is not called, mainCache is left unchanged, and
\* the key is still a local miss when that Get returns.
C15_PeerSuccessNotCached ==
  [][\A t \in Procs :
       /\ PeerReturns(t) => lru' = lru
       /\ (DoReturns(t) /\ PeerServed(c[t])) =>
            /\ calls[c[t]].steps = <<"peer", "peerOk">>
            /\ ret'[t] = [val |-> bytes[t], err |-> Nil]
            /\ ~InCache(lru', key[t])]_vars


\* fn of call i ended with an error of the loader
LoaderFailed(i) ==
  calls[i].steps # <<>> /\ calls[i].steps[Len(calls[i].steps)] = "loadErr"

\* the loader of goroutine t returns an error in this step
LoaderReturnsErr(t) == pc[t] = "getter" /\ pc'[t] = "wgDone"

\* C16 as stated: when the loader returns an error for k, Group.Get(k)
\* returns that error and the cache is left unchanged; k is not cached when
\* the Get returns, so a Get(k) that follows misses and loads again.
C16_LoaderErrorNotCached ==
  [][\A t \in Procs :
       /\ LoaderReturnsErr(t) => lru' = lru
       /\ (DoReturns(t) /\ LoaderFailed(c[t])) =>
            /\ ret'[t] = [val |-> NoBytes, err |-> ErrLoad]
            /\ ~InCache(lru', key[t])]_vars


\* goroutine t calls Get("") in this step (first call, or after another key)
EmptyKeyGet(t) ==
  /\ pc[t] \in {"idle", "done", "panicked"}
  /\ gets' = gets + 1
  /\ key'[t] = ""
  /\ pc'[t] # pc[t] \/ key[t] # ""

\* C17: Get("") returns at once with the error "key is required" and no
\* value; the cache, the single-flight map and its calls, the mutexes and
\* the loader and peer counters are left as they were.
C17_EmptyKeyRejected ==
  [][\A t \in Procs :
       EmptyKeyGet(t) =>
         /\ pc'[t] = "done"
         /\ ret'[t] = [val |-> NoBytes, err |-> ErrKey]
         /\ UNCHANGED <<lru, lmu, cmu, m, calls, loads, peerGets,
                        lastPop>>]_vars

\* Get("") was rejected while another Get is inside its loader and the
\* cache holds an entry
C17_Witness ==
  \E t, u \in Procs :
    /\ pc[t] = "done" /\ key[t] = ""
    /\ ret[t] = [val |-> NoBytes, err |-> ErrKey]
    /\ pc[u] = "getter" /\ lru # NoLru /\ lru.ll # <<>>


\* ------------------------------------------------------------- mutexes
\* the goroutine is inside the user's loader or a peer's Get
Suspended(t) == pc[t] \in {"getter", "peerGet"}

\* the next step of the goroutine takes the single-flight mutex (Do entry,
\* delete), cache.mu (populateCache) or signals the wait group
AtLock(u) == pc[u] \in {"load", "populate", "wgDone", "delete"}

\* that step can be taken
CanStep(u) ==
  \/ ENABLED DoEnter(u)
  \/ ENABLED Populate(u)
  \/ ENABLED WgDone(u)
  \/ ENABLED DoDelete(u)

Oversize(k, v) == cacheBytes > 0 /\ Len(k) + Len(v) > cacheBytes

\* fn of call i called the loader
LoaderCalled(i) == \E n \in DOMAIN calls[i].steps : calls[i].steps[n] = "local"

\* the Get that read right after the last populateCache has returned
ReaderReturned ==
  /\ lastPop.state = "read"
  /\ Oversize(lastPop.key, lastPop.value)
  /\ pc[lastPop.by] = "done" /\ c[lastPop.by] # 0

\* Add of an oversize entry returns and leaves the cache empty
OversizeAddEmpties ==
  \A t \in Procs :
    (pc[t] = "populate" /\ pc'[t] # "populate"
     /\ Oversize(key[t], bytes[t])) =>
      /\ pc'[t] = "wgDone"
      /\ lru'.ll = <<>> /\ lru'.nbytes = 0 /\ DOMAIN lru'.cache = {}

\* the Get that reads right after such an Add misses
OversizeReadMisses ==
  (lastPop.state = "read" /\ Oversize(lastPop.key, lastPop.value))
    => ~lastPop.ok

\* C19 as stated: with a positive budget, Add of an entry larger than the
\* budget terminates and leaves the cache empty with nbytes = 0, and the
\* next Get of that key is a miss that calls the loader again.
C19_OversizeReloaded ==
  /\ [][OversizeAddEmpties]_vars
  /\ [](OversizeReadMisses
        /\ (ReaderReturned =>
              /\ LoaderCalled(c[lastPop.by])
              /\ c[lastPop.by] > lastPop.call))

\* C19 amended: with a positive budget, Add of an entry larger than the
\* budget terminates and leaves the cache empty with nbytes = 0, and the
\* next Get of that key is a miss that enters the load path; there the
\* loader is called again unless the Get joins the call that did the Add
\* and is still registered, or a remote peer serves the key.
C19_OversizeMisses ==
  /\ [][OversizeAddEmpties]_vars
  /\ [](OversizeReadMisses
        /\ (ReaderReturned =>
              \/ c[lastPop.by] = lastPop.call
              \/ /\ c[lastPop.by] > lastPop.call
                 /\ PeerServed(c[lastPop.by]) \/ LoaderCalled(c[lastPop.by])))

\* the next Get missed and returned what its own loader call returned
C19_Witness ==
  /\ ReaderReturned /\ ~lastPop.ok
  /\ Producer(lastPop.by) /\ c[lastPop.by] > lastPop.call
  /\ LoaderCalled(c[lastPop.by])
  /\ lru # NoLru /\ lru.ll = <<>> /\ lru.nbytes = 0


\* --------------------------------------------------------------- progress
\* every loader call made so far has returned or is still running
LoaderCallsReturn ==
  \A i \in DOMAIN calls :
    \A n \in DOMAIN calls[i].steps : calls[i].steps[n] # "loadPanic"

\* no Get is in progress
Quiescent == \A t \in Procs : pc[t] \in {"idle", "done", "panicked"}

\* the call a waiter waits for is finished or its producer is still at work
CanBeWoken(t) ==
  \/ calls[c[t]].wg = 0
  \/ LET o == calls[c[t]].owner
     IN c[o] = c[t] /\ pc[o] \notin {"panicked", "spin", "idle", "done"}

\* C20 as stated, in the form a finite run refutes: as long as every loader
\* and peer call returns, no Get is in a loop it cannot leave, every waiter
\* can still be woken, and once no Get is in progress the single-flight map
\* holds no record.
C20_NoStuckGet ==
  LoaderCallsReturn =>
    /\ \A t \in Procs : pc[t] # "spin"
    /\ \A t \in Procs : pc[t] = "wait" => CanBeWoken(t)
    /\ Quiescent => m = <<>>

====
